---------------------------- MODULE Spec2Model ----------------------------
(***************************************************************************)
(* Model of lambda_function.py: the Keep -> Google Docs journal transfer.  *)
(*                                                                         *)
(* Strings are sequences of characters (one-character TLA+ strings), so    *)
(* that len(), strip(), isdigit() and the index arithmetic of addText are  *)
(* computed on the text itself.  A character is one Python code point.     *)
(* The Docs API measures every index in UTF-16 code units: a character     *)
(* outside the Basic Multilingual Plane (Astral below) is one code point   *)
(* for Python's len() and two index positions for the document.            *)
(***************************************************************************)
EXTENDS Integers, Sequences, FiniteSets, TLC

VARIABLES
    keepNotes,   \* ids of the labelled notes held by the Keep service
    everAdded,   \* ids the user has created so far (each is created once)
    doc,         \* the Google Docs document held by the Docs service
    pc,          \* position of the current lambda_handler invocation
    runs,        \* number of invocations started
    notes,       \* main: the sorted list of fetched notes (ids)
    fetchedDoc,  \* notesToGoogleDoc: doc, as returned by documents().get()
    i,           \* notesToGoogleDoc: position of the for loop in notes
    lastYear,    \* notesToGoogleDoc: lastYear
    lastMonth,   \* notesToGoogleDoc: lastMonth
    lastDay,     \* notesToGoogleDoc: lastDay
    endIndex,    \* notesToGoogleDoc: endIndex
    requests,    \* notesToGoogleDoc: requests
    exc,         \* the exception main raised in this invocation, or NoExc
    calls,       \* the service calls this invocation has completed, in order
    response,    \* what the last finished invocation returned
    prev,        \* what the previous invocation left behind (see Return, Crash)
    appended,    \* per note id: number of applied batches that held the note
    fmt          \* the formatting harness: a function, its argument, its result

vars == <<keepNotes, everAdded, doc, pc, runs, notes, fetchedDoc, i, lastYear,
          lastMonth, lastDay, endIndex, requests, exc, calls, response, prev,
          appended, fmt>>

---------------------------------------------------------------------------
(* Characters and Python's string primitives                               *)

NL == "\n"
Astral == "U+1F600"

DigitChars == <<"0", "1", "2", "3", "4", "5", "6", "7", "8", "9">>

isdigit(c) == \E d \in 1..10 : DigitChars[d] = c

isspace(c) == c = NL \/ c = " "

\* UTF-16 code units a character occupies in the document
Width(c) == IF c = Astral THEN 2 ELSE 1

Utf16Len(s) == Len(s) + Cardinality({k \in 1..Len(s) : Width(s[k]) = 2})

\* Python's len(): code points
len(s) == Len(s)

RECURSIVE str(_)
str(n) == IF n < 10 THEN <<DigitChars[n + 1]>>
          ELSE str(n \div 10) \o <<DigitChars[(n % 10) + 1]>>

DigitValue(c) == (CHOOSE d \in 1..10 : DigitChars[d] = c) - 1

RECURSIVE int(_)
\* int() of a non-empty string of digits
int(s) == IF Len(s) = 1 THEN DigitValue(s[1])
          ELSE 10 * int(SubSeq(s, 1, Len(s) - 1)) + DigitValue(s[Len(s)])

\* int(s) raises ValueError unless s is a decimal literal
IsIntLiteral(s) == s # <<>> /\ \A k \in 1..Len(s) : isdigit(s[k])

RECURSIVE lstrip(_)
lstrip(s) == IF s # <<>> /\ isspace(Head(s)) THEN lstrip(Tail(s)) ELSE s

RECURSIVE rstrip(_)
rstrip(s) == IF s # <<>> /\ isspace(s[Len(s)])
             THEN rstrip(SubSeq(s, 1, Len(s) - 1)) ELSE s

strip(s) == rstrip(lstrip(s))

Digits(s) == SelectSeq(s, isdigit)

min(a, b) == IF a < b THEN a ELSE b

\* F applied to the value of v, evaluated once
Bind(v, F(_)) == CHOOSE r \in {F(x) : x \in {v}} : TRUE

---------------------------------------------------------------------------
(* Configuration and tables                                                *)

None == -1

config == [YEAR_HEADER_NUM  |-> "1",
           MONTH_HEADER_NUM |-> "2",
           DAY_HEADER_NUM   |-> "3",
           TITLE_HEADER_NUM |-> "4",
           TIME_HEADER_NUM  |-> "5",
           TZ_ADJUSTMENT    |-> 0 - 5]

\* months[k] of the code is months[k + 1] here (sequences start at 1)
months == << <<"F","I","L","L","E","R">>,
             <<"J","a","n","u","a","r","y">>,
             <<"F","e","b","r","u","a","r","y">>,
             <<"M","a","r","c","h">>,
             <<"A","p","r","i","l">>,
             <<"M","a","y">>,
             <<"J","u","n","e">>,
             <<"J","u","l","y">>,
             <<"A","u","g","u","s","t">>,
             <<"S","e","p","t","e","m","b","e","r">>,
             <<"O","c","t","o","b","e","r">>,
             <<"N","o","v","e","m","b","e","r">>,
             <<"D","e","c","e","m","b","e","r">> >>

\* weekDays[k] of the code is weekDays[k + 1] here
weekDays == << <<"M","o","n","d","a","y">>,
               <<"T","u","e","s","d","a","y">>,
               <<"W","e","d","n","e","s","d","a","y">>,
               <<"T","h","u","r","s","d","a","y">>,
               <<"F","r","i","d","a","y">>,
               <<"S","a","t","u","r","d","a","y">>,
               <<"S","u","n","d","a","y">> >>

---------------------------------------------------------------------------
(* Formatting helpers                                                      *)

\* ordinal without its special case for 11, 12 and 13
ordinal_NoTeens(n) ==
    str(n) \o << <<"t","h">>, <<"s","t">>, <<"n","d">>, <<"r","d">>,
                 <<"t","h">> >>[min(n % 10, 4) + 1]

ordinal(n) ==
    LET suffix0 == << <<"t","h">>, <<"s","t">>, <<"n","d">>, <<"r","d">>,
                      <<"t","h">> >>[min(n % 10, 4) + 1]
        suffix  == IF 11 <= n /\ n <= 13 THEN <<"t","h">> ELSE suffix0
    IN  str(n) \o suffix

\* getTime without its branch for noon: hour 12 falls to hour % 12
getTime_NoNoon(datetime) ==
    LET hour   == IF datetime.hour = 0 THEN 12
                  ELSE IF datetime.hour < 12 THEN datetime.hour
                  ELSE datetime.hour % 12
        suffix == IF datetime.hour < 12 THEN <<"a","m">> ELSE <<"p","m">>
        minute == IF datetime.minute >= 10 THEN str(datetime.minute)
                  ELSE <<"0">> \o str(datetime.minute)
    IN  str(hour) \o <<":">> \o minute \o suffix

getTime(datetime) ==
    LET hour   == IF datetime.hour = 0 THEN 12
                  ELSE IF datetime.hour < 12 THEN datetime.hour
                  ELSE IF datetime.hour = 12 THEN datetime.hour
                  ELSE datetime.hour % 12
        suffix == IF datetime.hour = 0 THEN <<"a","m">>
                  ELSE IF datetime.hour < 12 THEN <<"a","m">>
                  ELSE IF datetime.hour = 12 THEN <<"p","m">>
                  ELSE <<"p","m">>
        minute == IF datetime.minute >= 10 THEN str(datetime.minute)
                  ELSE <<"0">> \o str(datetime.minute)
    IN  str(hour) \o <<":">> \o minute \o suffix

\* The proleptic Gregorian civil date of day number days (days since
\* 1970-01-01), as datetime computes it
CivilFromDays(days) ==
    Bind(days + 719468, LAMBDA z :
    Bind(z - (z \div 146097) * 146097, LAMBDA doe :
    Bind((doe - doe \div 1460 + doe \div 36524 - doe \div 146096) \div 365,
         LAMBDA yoe :
    Bind(doe - (365 * yoe + yoe \div 4 - yoe \div 100), LAMBDA doy :
    Bind((5 * doy + 2) \div 153, LAMBDA mp :
    Bind(IF mp < 10 THEN mp + 3 ELSE mp - 9, LAMBDA m :
        [year  |-> yoe + (z \div 146097) * 400 + (IF m <= 2 THEN 1 ELSE 0),
         month |-> m,
         day   |-> doy - (153 * mp + 2) \div 5 + 1]))))))

\* datetime.astimezone(tz=timezone(timedelta(hours=h))) of an instant given
\* in minutes since 1970-01-01T00:00Z: the civil date, the wall-clock time
\* and the weekday (Monday = 0) at that offset
astimezone(created, hours) ==
    Bind(created + 60 * hours, LAMBDA local :
    Bind(CivilFromDays(local \div 1440), LAMBDA date :
        [year |-> date.year, month |-> date.month, day |-> date.day,
         hour |-> (local % 1440) \div 60, minute |-> local % 60,
         weekday |-> ((local \div 1440) + 3) % 7]))

---------------------------------------------------------------------------
(* The document, as the Docs service holds it and as documents().get()     *)
(* returns it.  chars is the body text, every paragraph ending in NL;      *)
(* styles[q] is the namedStyleType of the q-th paragraph.  The body starts *)
(* at index 1 (index 0 is the leading section break, which is no           *)
(* paragraph).                                                             *)

CountNL(s) == Cardinality({k \in 1..Len(s) : s[k] = NL})

\* the document index of the character at position p of chars
IndexOfPos(chars, p) == 1 + Utf16Len(SubSeq(chars, 1, p - 1))

\* A position lies at most one place before its index for every Astral of
\* the text: the positions that can hold or start at index
Near(chars, index) ==
    {index - a : a \in 0..(Utf16Len(chars) - Len(chars))} \cap 1..Len(chars)

\* the position in chars that starts at document index index; 0 when index
\* is outside the body or falls inside a surrogate pair
PosOfIndex(chars, index) ==
    LET hits == {p \in Near(chars, index) : IndexOfPos(chars, p) = index}
    IN  IF hits = {} THEN 0 ELSE CHOOSE p \in hits : TRUE

\* the position of the character that covers document index index
PosCovering(chars, index) ==
    CHOOSE p \in Near(chars, index) :
        /\ IndexOfPos(chars, p) <= index
        /\ index < IndexOfPos(chars, p) + Width(chars[p])

\* the number of the paragraph that holds position p
ParaOfPos(chars, p) == 1 + CountNL(SubSeq(chars, 1, p - 1))

\* the positions of the NLs of chars: the q-th of them ends paragraph q
ParaEnds(chars) ==
    LET nls == {k \in 1..Len(chars) : chars[k] = NL}
    IN  [q \in 1..Cardinality(nls) |->
            CHOOSE k \in nls : Cardinality({j \in nls : j <= k}) = q]

\* doc['body']['content'], the paragraphs only: each a structural element
\* with its style, the content of its text run (the closing NL included)
\* and its startIndex/endIndex
Content(d) ==
    LET ends == ParaEnds(d.chars)
    IN  [q \in 1..Len(d.styles) |->
            LET a == IF q = 1 THEN 1 ELSE ends[q - 1] + 1
                b == ends[q]
            IN  [namedStyleType |-> d.styles[q],
                 content    |-> SubSeq(d.chars, a, b),
                 startIndex |-> IndexOfPos(d.chars, a),
                 endIndex   |-> IndexOfPos(d.chars, b) + 1]]

\* a document made of the given <<style, text>> paragraphs
RECURSIVE JoinParas(_)
JoinParas(ps) == IF ps = <<>> THEN <<>>
                 ELSE Head(ps)[2] \o <<NL>> \o JoinParas(Tail(ps))

MkDoc(ps) == [chars  |-> JoinParas(ps),
              styles |-> [q \in 1..Len(ps) |-> ps[q][1]]]

\* InsertTextRequest: the text goes in at a character boundary strictly
\* inside the body; the paragraphs a NL of the text creates take the style
\* of the paragraph at the insertion index
insertTextValid(d, index) == PosOfIndex(d.chars, index) # 0

insertText(d, index, text) ==
    Bind(PosOfIndex(d.chars, index), LAMBDA p :
    Bind(ParaOfPos(d.chars, p), LAMBDA q :
        [chars  |-> SubSeq(d.chars, 1, p - 1) \o text
                    \o SubSeq(d.chars, p, Len(d.chars)),
         styles |-> SubSeq(d.styles, 1, q)
                    \o [j \in 1..CountNL(text) |-> d.styles[q]]
                    \o SubSeq(d.styles, q + 1, Len(d.styles))]))

\* UpdateParagraphStyleRequest: every paragraph that overlaps the range
\* takes the style; the range must be non-empty and inside the body
updateParagraphStyleValid(d, startIndex, endIdx) ==
    /\ 1 <= startIndex
    /\ startIndex < endIdx
    /\ endIdx <= 1 + Utf16Len(d.chars)

updateParagraphStyle(d, startIndex, endIdx, namedStyleType) ==
    Bind(ParaOfPos(d.chars, PosCovering(d.chars, startIndex)), LAMBDA first :
    Bind(ParaOfPos(d.chars, PosCovering(d.chars, endIdx - 1)), LAMBDA last :
        [chars  |-> d.chars,
         styles |-> [q \in 1..Len(d.styles) |->
                        IF first <= q /\ q <= last
                        THEN namedStyleType ELSE d.styles[q]]]))

requestValid(d, r) ==
    IF r.kind = "insertText"
    THEN insertTextValid(d, r.index)
    ELSE updateParagraphStyleValid(d, r.startIndex, r.endIndex)

applyRequest(d, r) ==
    IF r.kind = "insertText"
    THEN insertText(d, r.index, r.text)
    ELSE updateParagraphStyle(d, r.startIndex, r.endIndex, r.namedStyleType)

\* documents().batchUpdate(): the requests are applied in order; if one is
\* invalid the whole batch is rejected and nothing is applied
RECURSIVE batchUpdate(_, _)
batchUpdate(d, rs) ==
    IF rs = <<>> THEN [ok |-> TRUE, doc |-> d]
    ELSE IF ~requestValid(d, Head(rs)) THEN [ok |-> FALSE, doc |-> d]
    ELSE Bind(applyRequest(d, Head(rs)), LAMBDA next :
              batchUpdate(next, Tail(rs)))

---------------------------------------------------------------------------
(* Reading the document                                                    *)

\* The last paragraph whose style is HEADING_<headerNum>: its stripped
\* text, or found = FALSE where the code falls off the loop (returns None)
getLastHeader(d, headerNum) ==
    Bind({q \in 1..Len(d.styles) : d.styles[q] = "HEADING_" \o headerNum},
         LAMBDA hits :
        IF hits = {} THEN [found |-> FALSE, text |-> <<>>]
        ELSE [found |-> TRUE,
              text  |-> strip(Content(d)[CHOOSE x \in hits :
                                            \A y \in hits : y <= x].content)])

\* getLastDate taking the month's place in a list without the filler
getLastDate_NoFiller(d) ==
    Bind(getLastHeader(d, config.YEAR_HEADER_NUM), LAMBDA y :
    Bind(getLastHeader(d, config.MONTH_HEADER_NUM), LAMBDA m :
    Bind(getLastHeader(d, config.DAY_HEADER_NUM), LAMBDA dd :
        IF ~y.found \/ ~m.found \/ ~dd.found THEN
            [raises |-> "TypeError", lastYear |-> None, lastMonth |-> None,
             lastDay |-> None]
        ELSE [raises    |-> "",
              lastYear  |-> int(y.text),
              lastMonth |-> (CHOOSE k \in 1..Len(months) : months[k] = m.text) - 2,
              lastDay   |-> int(Digits(dd.text))])))

\* getLastDate: raises = "" and the three integers, or the exception the
\* first failing conversion raises
getLastDate(d) ==
    Bind(getLastHeader(d, config.YEAR_HEADER_NUM), LAMBDA y :
    Bind(getLastHeader(d, config.MONTH_HEADER_NUM), LAMBDA m :
    Bind(getLastHeader(d, config.DAY_HEADER_NUM), LAMBDA dd :
        IF ~y.found THEN
            [raises |-> "TypeError", lastYear |-> None, lastMonth |-> None,
             lastDay |-> None]
        ELSE IF \/ ~IsIntLiteral(y.text)
                \/ ~m.found
                \/ ~\E k \in 1..Len(months) : months[k] = m.text
        THEN [raises |-> "ValueError", lastYear |-> None, lastMonth |-> None,
              lastDay |-> None]
        ELSE IF ~dd.found THEN
            [raises |-> "TypeError", lastYear |-> None, lastMonth |-> None,
             lastDay |-> None]
        ELSE IF Digits(dd.text) = <<>> THEN
            [raises |-> "ValueError", lastYear |-> None, lastMonth |-> None,
             lastDay |-> None]
        ELSE [raises    |-> "",
              lastYear  |-> int(y.text),
              lastMonth |-> (CHOOSE k \in 1..Len(months) : months[k] = m.text) - 1,
              lastDay   |-> int(Digits(dd.text))])))

getEndIndex(d) == Content(d)[Len(d.styles)].endIndex

---------------------------------------------------------------------------
(* Building the batch                                                      *)

\* addText: the new endIndex and the extended request list
addText(text, endIdx, namedStyleType, reqs) ==
    LET newEndIndex == endIdx + len(text) + 1
    IN  [endIndex |-> newEndIndex,
         requests |-> reqs \o
            << [kind |-> "insertText", index |-> endIdx - 1,
                text |-> <<NL>> \o text],
               [kind |-> "updateParagraphStyle", startIndex |-> endIdx,
                endIndex |-> newEndIndex, namedStyleType |-> namedStyleType] >>]

\* The loop body with the day heading written for every note
ProcessOne_AlwaysDay(note, cur) ==
    Bind(astimezone(note.created, config.TZ_ADJUSTMENT), LAMBDA timeCreated :
    Bind(IF timeCreated.year # cur.lastYear
         THEN addText(str(timeCreated.year), cur.endIndex,
                      "HEADING_" \o config.YEAR_HEADER_NUM, cur.requests)
         ELSE [endIndex |-> cur.endIndex, requests |-> cur.requests],
         LAMBDA y :
    Bind(IF timeCreated.month # cur.lastMonth
         THEN addText(months[timeCreated.month + 1], y.endIndex,
                      "HEADING_" \o config.MONTH_HEADER_NUM, y.requests)
         ELSE y,
         LAMBDA m :
    Bind(addText(weekDays[timeCreated.weekday + 1] \o <<" ">>
                    \o ordinal(timeCreated.day),
                 m.endIndex, "HEADING_" \o config.DAY_HEADER_NUM, m.requests),
         LAMBDA d :
    Bind(addText(note.title, d.endIndex,
                 "HEADING_" \o config.TITLE_HEADER_NUM, d.requests),
         LAMBDA t :
    Bind(addText(getTime(timeCreated), t.endIndex,
                 "HEADING_" \o config.TIME_HEADER_NUM, t.requests),
         LAMBDA h :
    Bind(addText(note.text, h.endIndex, "NORMAL_TEXT", h.requests),
         LAMBDA b :
        [lastYear  |-> timeCreated.year,
         lastMonth |-> timeCreated.month,
         lastDay   |-> timeCreated.day,
         endIndex  |-> b.endIndex,
         requests  |-> b.requests])))))))

\* One iteration of the for loop of notesToGoogleDoc over note, from the
\* carried cursor cur = [lastYear, lastMonth, lastDay, endIndex, requests]
ProcessOne(note, cur) ==
    Bind(astimezone(note.created, config.TZ_ADJUSTMENT), LAMBDA timeCreated :
    Bind(IF timeCreated.year # cur.lastYear
         THEN addText(str(timeCreated.year), cur.endIndex,
                      "HEADING_" \o config.YEAR_HEADER_NUM, cur.requests)
         ELSE [endIndex |-> cur.endIndex, requests |-> cur.requests],
         LAMBDA y :
    Bind(IF timeCreated.month # cur.lastMonth
         THEN addText(months[timeCreated.month + 1], y.endIndex,
                      "HEADING_" \o config.MONTH_HEADER_NUM, y.requests)
         ELSE y,
         LAMBDA m :
    Bind(IF timeCreated.day # cur.lastDay
         THEN addText(weekDays[timeCreated.weekday + 1] \o <<" ">>
                         \o ordinal(timeCreated.day),
                      m.endIndex, "HEADING_" \o config.DAY_HEADER_NUM,
                      m.requests)
         ELSE m,
         LAMBDA d :
    Bind(addText(note.title, d.endIndex,
                 "HEADING_" \o config.TITLE_HEADER_NUM, d.requests),
         LAMBDA t :
    Bind(addText(getTime(timeCreated), t.endIndex,
                 "HEADING_" \o config.TIME_HEADER_NUM, t.requests),
         LAMBDA h :
    Bind(addText(note.text, h.endIndex, "NORMAL_TEXT", h.requests),
         LAMBDA b :
        [lastYear  |-> timeCreated.year,
         lastMonth |-> timeCreated.month,
         lastDay   |-> timeCreated.day,
         endIndex  |-> b.endIndex,
         requests  |-> b.requests])))))))

---------------------------------------------------------------------------
(* The notes the user may create, and the documents the run may find       *)

MaxRuns == 2

Utc(days, hour, minute) == days * 1440 + hour * 60 + minute

\* created is the instant in minutes since 1970-01-01T00:00Z; day 18266 is
\* 2020-01-05.  Titles are single lines; a body may hold line breaks.
NotePool ==
    << [title |-> <<"a">>,         text |-> <<"b">>,
        created |-> Utc(18267, 3, 30)],     \* local 2020-01-05 22:30
       [title |-> <<Astral, "7">>, text |-> <<>>,
        created |-> Utc(18267, 5, 0)],      \* local 2020-01-06 00:00
       [title |-> <<"c">>,         text |-> <<"z", Astral>>,
        created |-> Utc(18268, 4, 59)],     \* local 2020-01-06 23:59
       [title |-> <<"d">>,         text |-> <<"x", NL, "y">>,
        created |-> Utc(18297, 18, 5)],     \* local 2020-02-05 13:05
       [title |-> <<>>,            text |-> <<"e">>,
        created |-> Utc(18663, 14, 7)] >>   \* local 2021-02-05 09:07

NoteIds == 1..Len(NotePool)

\* a document seeded with the headings of 2020-01-05, and a blank document
SeededDoc == MkDoc(<< <<"HEADING_" \o config.YEAR_HEADER_NUM,
                        <<"2","0","2","0">> >>,
                      <<"HEADING_" \o config.MONTH_HEADER_NUM, months[2]>>,
                      <<"HEADING_" \o config.DAY_HEADER_NUM,
                        weekDays[7] \o <<" ","5","t","h">> >> >>)

BlankDoc == MkDoc(<< <<"NORMAL_TEXT", <<>> >> >>)

\* sorted(keep.find(labels=[...]), key=lambda x: x.timestamps.created)
RECURSIVE sorted(_)
sorted(S) ==
    IF S = {} THEN <<>>
    ELSE LET n == CHOOSE x \in S :
                    \A y \in S : NotePool[x].created <= NotePool[y].created
         IN  <<n>> \o sorted(S \ {n})

Range(s) == {s[k] : k \in 1..Len(s)}

---------------------------------------------------------------------------
(* lambda_handler's response                                               *)

Success == <<"S","u","c","c","e","s","s","!">>

\* traceback.format_exc(): the header line, then the exception's line
format_exc(e) == <<"T","r","a","c","e","b","a","c","k",NL>> \o <<e, NL>>

RECURSIVE json_escape(_)
json_escape(s) ==
    IF s = <<>> THEN <<>>
    ELSE (IF Head(s) = NL THEN <<"\\", "n">>
          ELSE IF Head(s) = "\"" THEN <<"\\", "\"">>
          ELSE IF Head(s) = "\\" THEN <<"\\", "\\">>
          ELSE <<Head(s)>>) \o json_escape(Tail(s))

json_dumps(s) == <<"\"">> \o json_escape(s) \o <<"\"">>

NoResponse == [statusCode |-> None, body |-> <<>>]

NoPrev == [outcome |-> "none", wrote |-> FALSE, notes |-> <<>>,
           lastYear |-> None, lastMonth |-> None, lastDay |-> None]

FmtIdle == [fn |-> "none", hour |-> 0, minute |-> 0, n |-> 0,
            out |-> <<>>, done |-> FALSE]

---------------------------------------------------------------------------
(* The state machine                                                       *)

\* No invocation has run yet and the user has created no note
Fresh ==
    /\ keepNotes = {}
    /\ everAdded = {}
    /\ pc = "idle"
    /\ runs = 0
    /\ notes = <<>>
    /\ fetchedDoc = BlankDoc
    /\ i = 0
    /\ lastYear = None
    /\ lastMonth = None
    /\ lastDay = None
    /\ endIndex = None
    /\ requests = <<>>
    /\ exc = ""
    /\ calls = <<>>
    /\ response = NoResponse
    /\ prev = NoPrev
    /\ appended = [n \in NoteIds |-> 0]

Init ==
    /\ Fresh
    /\ doc \in {SeededDoc, BlankDoc}
    /\ fmt = FmtIdle

\* The user creates a labelled note and syncs it (as test.py does)
UserAddNote ==
    /\ pc = "idle"
    /\ \E n \in NoteIds \ everAdded :
          /\ keepNotes' = keepNotes \cup {n}
          /\ everAdded' = everAdded \cup {n}
    /\ UNCHANGED <<doc, pc, runs, notes, fetchedDoc, i, lastYear, lastMonth,
                   lastDay, endIndex, requests, exc, calls, response, prev,
                   appended, fmt>>

\* main without its "if notes:" test
Main_NoTest ==
    /\ pc = "idle"
    /\ runs < MaxRuns
    /\ runs' = runs + 1
    /\ notes' = sorted(keepNotes)
    /\ calls' = <<"login", "find">>
    /\ exc' = ""
    /\ pc' = "notesToGoogleDoc"
    /\ UNCHANGED <<keepNotes, everAdded, doc, fetchedDoc, i, lastYear,
                   lastMonth, lastDay, endIndex, requests, response, prev,
                   appended, fmt>>

\* lambda_handler calls main: configuration, login, the label query and the
\* sort; with no notes main returns at once
Main ==
    /\ pc = "idle"
    /\ runs < MaxRuns
    /\ runs' = runs + 1
    /\ \E ok \in BOOLEAN :
          IF ok
          THEN /\ notes' = sorted(keepNotes)
               /\ calls' = <<"login", "find">>
               /\ exc' = ""
               /\ pc' = IF notes' # <<>> THEN "notesToGoogleDoc" ELSE "mainDone"
          ELSE /\ notes' = <<>>
               /\ calls' = <<>>
               /\ exc' = "LoginException"
               /\ pc' = "raised"
    /\ UNCHANGED <<keepNotes, everAdded, doc, fetchedDoc, i, lastYear,
                   lastMonth, lastDay, endIndex, requests, response, prev,
                   appended, fmt>>

\* notesToGoogleDoc up to its loop: the document is fetched and the locals
\* are initialised
GetDoc ==
    /\ pc = "notesToGoogleDoc"
    /\ \E ok \in BOOLEAN :
          IF ok
          THEN /\ fetchedDoc' = doc
               /\ calls' = Append(calls, "documents.get")
               /\ pc' = "loop"
               /\ UNCHANGED exc
          ELSE /\ exc' = "HttpError"
               /\ pc' = "raised"
               /\ UNCHANGED <<fetchedDoc, calls>>
    /\ lastYear' = None
    /\ lastMonth' = None
    /\ lastDay' = None
    /\ endIndex' = None
    /\ requests' = <<>>
    /\ i' = 1
    /\ UNCHANGED <<keepNotes, everAdded, doc, runs, notes, response, prev,
                   appended, fmt>>

\* One iteration of the loop; the first parses the document's last date
ProcessNote ==
    /\ pc = "loop"
    /\ i <= Len(notes)
    /\ IF endIndex = None \/ endIndex = 0
       THEN \E ld \in {getLastDate(fetchedDoc)} :
               IF ld.raises # ""
               THEN /\ exc' = ld.raises
                    /\ pc' = "raised"
                    /\ UNCHANGED <<i, lastYear, lastMonth, lastDay, endIndex,
                                   requests>>
               ELSE \E new \in {ProcessOne(NotePool[notes[i]],
                                  [lastYear  |-> ld.lastYear,
                                   lastMonth |-> ld.lastMonth,
                                   lastDay   |-> ld.lastDay,
                                   endIndex  |-> getEndIndex(fetchedDoc),
                                   requests  |-> requests])} :
                       /\ lastYear' = new.lastYear
                       /\ lastMonth' = new.lastMonth
                       /\ lastDay' = new.lastDay
                       /\ endIndex' = new.endIndex
                       /\ requests' = new.requests
                       /\ i' = i + 1
                       /\ UNCHANGED <<exc, pc>>
       ELSE \E new \in {ProcessOne(NotePool[notes[i]],
                          [lastYear  |-> lastYear,
                           lastMonth |-> lastMonth,
                           lastDay   |-> lastDay,
                           endIndex  |-> endIndex,
                           requests  |-> requests])} :
               /\ lastYear' = new.lastYear
               /\ lastMonth' = new.lastMonth
               /\ lastDay' = new.lastDay
               /\ endIndex' = new.endIndex
               /\ requests' = new.requests
               /\ i' = i + 1
               /\ UNCHANGED <<exc, pc>>
    /\ UNCHANGED <<keepNotes, everAdded, doc, runs, notes, fetchedDoc, calls,
                   response, prev, appended, fmt>>

\* The batch is sent: the service applies all of it, or rejects it (an
\* invalid request) or is not reached, and then applies none of it
BatchUpdate ==
    /\ pc = "loop"
    /\ i > Len(notes)
    /\ \E reached \in BOOLEAN, result \in {batchUpdate(doc, requests)} :
              IF reached /\ result.ok
              THEN /\ doc' = result.doc
                   /\ calls' = Append(calls, "batchUpdate")
                   /\ appended' = [n \in NoteIds |->
                                     IF n \in Range(notes) THEN appended[n] + 1
                                     ELSE appended[n]]
                   /\ pc' = "deleteNotes"
                   /\ UNCHANGED exc
              ELSE /\ exc' = "HttpError"
                   /\ pc' = "raised"
                   /\ UNCHANGED <<doc, calls, appended>>
    /\ UNCHANGED <<keepNotes, everAdded, runs, notes, fetchedDoc, i, lastYear,
                   lastMonth, lastDay, endIndex, requests, response, prev, fmt>>

\* deleteNotes whose failing sync has committed the deletions all the same
DeleteNotes_CommitsThenRaises ==
    /\ pc = "deleteNotes"
    /\ keepNotes' = keepNotes \ Range(notes)
    /\ \E ok \in BOOLEAN :
          IF ok
          THEN /\ calls' = Append(calls, "sync")
               /\ pc' = "mainDone"
               /\ UNCHANGED exc
          ELSE /\ exc' = "SyncException"
               /\ pc' = "raised"
               /\ UNCHANGED calls
    /\ UNCHANGED <<everAdded, doc, runs, notes, fetchedDoc, i, lastYear,
                   lastMonth, lastDay, endIndex, requests, response, prev,
                   appended, fmt>>

\* deleteNotes run in a finally clause: also after notesToGoogleDoc raised
DeleteNotes_Finally ==
    /\ pc \in {"deleteNotes", "raised"}
    /\ notes # <<>>
    /\ keepNotes' = keepNotes \ Range(notes)
    /\ calls' = Append(calls, "sync")
    /\ pc' = "mainDone"
    /\ UNCHANGED <<everAdded, doc, runs, notes, fetchedDoc, i, lastYear,
                   lastMonth, lastDay, endIndex, requests, exc, response, prev,
                   appended, fmt>>

\* deleteNotes: every note is marked deleted, and keep.sync() commits that
DeleteNotes ==
    /\ pc = "deleteNotes"
    /\ \E ok \in BOOLEAN :
          IF ok
          THEN /\ keepNotes' = keepNotes \ Range(notes)
               /\ calls' = Append(calls, "sync")
               /\ pc' = "mainDone"
               /\ UNCHANGED exc
          ELSE /\ exc' = "SyncException"
               /\ pc' = "raised"
               /\ UNCHANGED <<keepNotes, calls>>
    /\ UNCHANGED <<everAdded, doc, runs, notes, fetchedDoc, i, lastYear,
                   lastMonth, lastDay, endIndex, requests, response, prev,
                   appended, fmt>>

Wrote == \E k \in 1..Len(calls) : calls[k] = "batchUpdate"

Left(outcome) ==
    [outcome |-> outcome, wrote |-> Wrote, notes |-> notes,
     lastYear |-> lastYear, lastMonth |-> lastMonth, lastDay |-> lastDay]

\* The locals of main and notesToGoogleDoc end with the invocation
LocalsGone ==
    /\ notes' = <<>>
    /\ fetchedDoc' = BlankDoc
    /\ i' = 0
    /\ lastYear' = None
    /\ lastMonth' = None
    /\ lastDay' = None
    /\ endIndex' = None
    /\ requests' = <<>>

\* lambda_handler with an except clause that drops the trace
Return_DropsTrace ==
    /\ pc \in {"mainDone", "raised"}
    /\ response' = [statusCode |-> 200, body |-> json_dumps(Success)]
    /\ prev' = Left(IF pc = "raised" THEN "raised" ELSE "success")
    /\ pc' = "idle"
    /\ LocalsGone
    /\ UNCHANGED <<keepNotes, everAdded, doc, runs, exc, calls, appended, fmt>>

\* lambda_handler after main: the except clause and the return
Return ==
    /\ pc \in {"mainDone", "raised"}
    /\ LET trace == IF pc = "raised" THEN format_exc(exc) ELSE Success
       IN  response' = [statusCode |-> 200, body |-> json_dumps(trace)]
    /\ prev' = Left(IF pc = "raised" THEN "raised" ELSE "success")
    /\ pc' = "idle"
    /\ LocalsGone
    /\ UNCHANGED <<keepNotes, everAdded, doc, runs, exc, calls, appended, fmt>>

\* The invocation is killed between two service calls (the platform's
\* timeout): nothing is returned and nothing more is done
Crash ==
    /\ pc \in {"notesToGoogleDoc", "loop", "deleteNotes"}
    /\ response' = NoResponse
    /\ prev' = Left("crashed")
    /\ pc' = "idle"
    /\ LocalsGone
    /\ UNCHANGED <<keepNotes, everAdded, doc, runs, exc, calls, appended, fmt>>

Next ==
    \/ UserAddNote
    \/ Main
    \/ GetDoc
    \/ ProcessNote
    \/ BatchUpdate
    \/ DeleteNotes
    \/ Return
    \/ Crash

Spec == Init /\ [][Next]_vars

---------------------------------------------------------------------------
(* The formatting helpers on their own: every time of day goes through     *)
(* getTime and every day of the month through ordinal.                     *)

Hours == 0..23
Minutes == 0..59
DaysOfMonth == 1..31

FormatInit ==
    /\ Fresh
    /\ doc = SeededDoc
    /\ fmt \in {[fn |-> "getTime", hour |-> h, minute |-> m, n |-> 0,
                 out |-> <<>>, done |-> FALSE] : h \in Hours, m \in Minutes}
          \cup {[fn |-> "ordinal", hour |-> 0, minute |-> 0, n |-> n,
                 out |-> <<>>, done |-> FALSE] : n \in DaysOfMonth}

CallGetTime ==
    /\ fmt.fn = "getTime"
    /\ ~fmt.done
    /\ fmt' = [fmt EXCEPT !.out = getTime([hour |-> fmt.hour,
                                           minute |-> fmt.minute]),
                          !.done = TRUE]
    /\ UNCHANGED <<keepNotes, everAdded, doc, pc, runs, notes, fetchedDoc, i,
                   lastYear, lastMonth, lastDay, endIndex, requests, exc,
                   calls, response, prev, appended>>

CallOrdinal ==
    /\ fmt.fn = "ordinal"
    /\ ~fmt.done
    /\ fmt' = [fmt EXCEPT !.out = ordinal(fmt.n), !.done = TRUE]
    /\ UNCHANGED <<keepNotes, everAdded, doc, pc, runs, notes, fetchedDoc, i,
                   lastYear, lastMonth, lastDay, endIndex, requests, exc,
                   calls, response, prev, appended>>

FormatNext == CallGetTime \/ CallOrdinal

FormatSpec == FormatInit /\ [][FormatNext]_vars

---------------------------------------------------------------------------
(* C6: getTime                                                             *)

\* the two digits of a number below 100
TwoDigits(m) == <<DigitChars[(m \div 10) + 1], DigitChars[(m % 10) + 1]>>

\* C6: for every hour h in 0..23 and minute m in 0..59 getTime returns
\* H ":" MM suffix, where H is 12 when h mod 12 = 0 and h mod 12 otherwise,
\* written without a leading zero, MM is m in exactly two digits and the
\* suffix is am when h < 12 and pm otherwise; 00:00 gives 12:00am, 13:05
\* gives 1:05pm and 23:59 gives 11:59pm.
C6_GetTimeFormat ==
    (fmt.fn = "getTime" /\ fmt.done) =>
        LET h == fmt.hour
            m == fmt.minute
            H == IF h % 12 = 0 THEN 12 ELSE h % 12
        IN  /\ fmt.out = (IF H >= 10 THEN TwoDigits(H) ELSE <<DigitChars[H + 1]>>)
                         \o <<":">> \o TwoDigits(m)
                         \o (IF h < 12 THEN <<"a", "m">> ELSE <<"p", "m">>)
            /\ (h = 0 /\ m = 0) => fmt.out = <<"1","2",":","0","0","a","m">>
            /\ (h = 13 /\ m = 5) => fmt.out = <<"1",":","0","5","p","m">>
            /\ (h = 23 /\ m = 59) => fmt.out = <<"1","1",":","5","9","p","m">>

C6_Witness ==
    /\ fmt.fn = "getTime"
    /\ fmt.done
    /\ fmt.hour = 12
    /\ fmt.minute = 7
    /\ fmt.out = <<"1","2",":","0","7","p","m">>

---------------------------------------------------------------------------
(* C7: ordinal                                                             *)

\* C7: for every day of the month n in 1..31 ordinal(n) is the decimal
\* digits of n followed by th when n is 11, 12 or 13, and otherwise by st,
\* nd, rd when n mod 10 is 1, 2, 3 and th for every other last digit; so
\* 1st, 2nd, 3rd, 4th, 11th, 12th, 13th, 21st.
C7_OrdinalFormat ==
    (fmt.fn = "ordinal" /\ fmt.done) =>
        LET n == fmt.n
            digits == IF n >= 10 THEN TwoDigits(n) ELSE <<DigitChars[n + 1]>>
            suffix == IF n \in {11, 12, 13} THEN <<"t", "h">>
                      ELSE IF n % 10 = 1 THEN <<"s", "t">>
                      ELSE IF n % 10 = 2 THEN <<"n", "d">>
                      ELSE IF n % 10 = 3 THEN <<"r", "d">>
                      ELSE <<"t", "h">>
        IN  /\ fmt.out = digits \o suffix
            /\ n = 1 => fmt.out = <<"1", "s", "t">>
            /\ n = 2 => fmt.out = <<"2", "n", "d">>
            /\ n = 3 => fmt.out = <<"3", "r", "d">>
            /\ n = 4 => fmt.out = <<"4", "t", "h">>
            /\ n = 11 => fmt.out = <<"1", "1", "t", "h">>
            /\ n = 12 => fmt.out = <<"1", "2", "t", "h">>
            /\ n = 13 => fmt.out = <<"1", "3", "t", "h">>
            /\ n = 21 => fmt.out = <<"2", "1", "s", "t">>

C7_Witness ==
    /\ fmt.fn = "ordinal"
    /\ fmt.done
    /\ fmt.n = 12
    /\ fmt.out = <<"1", "2", "t", "h">>

---------------------------------------------------------------------------
(* Notions the claims about a run share                                    *)

\* the local (timezone-adjusted) creation date of note n
LocalDate(n) ==
    Bind(astimezone(NotePool[n].created, config.TZ_ADJUSTMENT), LAMBDA t :
         <<t.year, t.month, t.day>>)

\* the carried last-seen date the next iteration of the loop compares with
CarriedDate ==
    IF endIndex = None \/ endIndex = 0
    THEN Bind(getLastDate(fetchedDoc), LAMBDA ld :
              <<ld.lastYear, ld.lastMonth, ld.lastDay>>)
    ELSE <<lastYear, lastMonth, lastDay>>

\* the insertion and the style request addText makes for text
Insertion(r, text) == r.kind = "insertText" /\ r.text = <<NL>> \o text

Styled(r, namedStyleType) ==
    r.kind = "updateParagraphStyle" /\ r.namedStyleType = namedStyleType

DateHeadings == {"HEADING_" \o config.YEAR_HEADER_NUM,
                 "HEADING_" \o config.MONTH_HEADER_NUM,
                 "HEADING_" \o config.DAY_HEADER_NUM}

---------------------------------------------------------------------------
(* C3: a note of the last-seen date gets no date heading                   *)

\* C3: when a note's local year, month and day all equal the carried
\* last-seen year, month and day (parsed from the document for the first
\* note, set by the preceding note otherwise), processing the note appends
\* exactly three insertions, in order title heading, time heading, body,
\* and no year, month or day heading.
C3_NoRedundantHeadings ==
    [][(/\ pc = "loop" /\ pc' = "loop" /\ i' = i + 1
        /\ LocalDate(notes[i]) = CarriedDate)
       => LET note == NotePool[notes[i]]
              k    == Len(requests)
              time == getTime(astimezone(note.created, config.TZ_ADJUSTMENT))
          IN  /\ Len(requests') = k + 6
              /\ SubSeq(requests', 1, k) = requests
              /\ Insertion(requests'[k + 1], note.title)
              /\ Styled(requests'[k + 2], "HEADING_" \o config.TITLE_HEADER_NUM)
              /\ Insertion(requests'[k + 3], time)
              /\ Styled(requests'[k + 4], "HEADING_" \o config.TIME_HEADER_NUM)
              /\ Insertion(requests'[k + 5], note.text)
              /\ Styled(requests'[k + 6], "NORMAL_TEXT")]_vars

\* the second note of a batch has the date of the first and got three
\* insertions (the first got a day heading and three)
C3_Witness ==
    /\ pc = "loop"
    /\ notes = <<2, 3>>
    /\ i = 3
    /\ LocalDate(2) = LocalDate(3)
    /\ Len(requests) = 8 + 6

---------------------------------------------------------------------------
(* C2: no deletion without a completed write                               *)

\* C2: in any run, a note leaves the notes service only after that run's
\* batchUpdate has completed; if the batched write fails, deleteNotes is
\* not reached: no note is deleted and no sync is made.
C2_BatchAtomicity ==
    [][/\ (keepNotes \ keepNotes' # {}) =>
              /\ Wrote
              /\ calls' = Append(calls, "sync")
              /\ keepNotes \ keepNotes' \subseteq Range(notes)
       /\ (pc = "loop" /\ i > Len(notes) /\ pc' = "raised") =>
              /\ keepNotes' = keepNotes
              /\ doc' = doc
              /\ ~\E k \in 1..Len(calls') : calls'[k] \in {"batchUpdate", "sync"}
       /\ (pc = "raised" /\ ~Wrote) =>
              /\ keepNotes' = keepNotes
              /\ calls' = calls]_vars

\* the batched write of a run with notes has failed
C2_Witness ==
    /\ pc = "raised"
    /\ exc = "HttpError"
    /\ notes # <<>>
    /\ i > Len(notes)
    /\ calls = <<"login", "find", "documents.get">>
    /\ Range(notes) \subseteq keepNotes

---------------------------------------------------------------------------
(* C4: a run without notes                                                 *)

\* C4: a run whose label query returns no note leaves both stores as they
\* are: it fetches and writes no document and deletes and syncs nothing.
C4_EmptyRun ==
    [][/\ (pc = "idle" /\ pc' = "mainDone") =>
              /\ notes' = <<>>
              /\ calls' = <<"login", "find">>
              /\ doc' = doc
              /\ keepNotes' = keepNotes
       /\ (pc = "mainDone" /\ notes = <<>>) =>
              /\ calls = <<"login", "find">>
              /\ calls' = calls
              /\ doc' = doc
              /\ keepNotes' = keepNotes
              /\ pc' = "idle"]_vars

C4_Witness ==
    /\ pc = "mainDone"
    /\ notes = <<>>
    /\ keepNotes = {}
    /\ calls = <<"login", "find">>

---------------------------------------------------------------------------
(* C5: the response of lambda_handler                                      *)

Quote == "\""

\* C5: whatever main did (it returned, or raised during the note fetch, the
\* header parsing, the batch write or the note deletion), lambda_handler
\* returns a response of the one shape with statusCode 200; its body is the
\* JSON string "Success!" exactly when main raised nothing, and the JSON
\* string of the stack trace otherwise.
C5_FixedShapeResponse ==
    [][(pc \in {"mainDone", "raised"} /\ pc' = "idle") =>
          /\ DOMAIN response' = {"statusCode", "body"}
          /\ response'.statusCode = 200
          /\ (response'.body = <<Quote>> \o Success \o <<Quote>>)
                <=> (pc = "mainDone")
          /\ (pc = "raised") =>
                /\ exc \in {"LoginException", "HttpError", "TypeError",
                            "ValueError", "SyncException"}
                /\ response'.body =
                      <<Quote, "T","r","a","c","e","b","a","c","k", "\\", "n",
                        exc, "\\", "n", Quote>>]_vars

\* the header parsing raised on a document without date headings, and the
\* invocation returned the trace
C5_Witness ==
    /\ pc = "idle"
    /\ prev.outcome = "raised"
    /\ exc = "TypeError"
    /\ response.statusCode = 200
    /\ response.body # <<Quote>> \o Success \o <<Quote>>

---------------------------------------------------------------------------
(* C9: a write that is not followed by the deletion                        *)

\* the previous invocation applied its batch and ended (raised, or was
\* killed) before its deletions were committed
PrevWroteOnly == prev.wrote /\ prev.outcome \in {"raised", "crashed"}

\* the time headings of the document that show the creation time of note n
TimeHeadingsOf(d, n) ==
    Bind(getTime(astimezone(NotePool[n].created, config.TZ_ADJUSTMENT))
            \o <<NL>>, LAMBDA line :
         {q \in 1..Len(d.styles) :
             /\ d.styles[q] = "HEADING_" \o config.TIME_HEADER_NUM
             /\ Content(d)[q].content = line})

\* C9: if a run's batched write succeeds and the run then fails before the
\* deletions are committed, its notes are still in the notes service, the
\* next run fetches them again and appends them a second time: the
\* document then holds every such note twice.
C9_DuplicateAfterFailedDelete ==
    PrevWroteOnly =>
        /\ pc = "idle" => Range(prev.notes) \subseteq keepNotes
        /\ pc \in {"notesToGoogleDoc", "loop", "deleteNotes"} =>
              Range(prev.notes) \subseteq Range(notes)
        /\ pc = "deleteNotes" =>
              \A n \in Range(prev.notes) :
                  /\ appended[n] >= 2
                  /\ Cardinality(TimeHeadingsOf(doc, n)) >= 2

\* the run after a run that was killed between its write and its deletion
\* has written too
C9_Witness ==
    /\ pc = "deleteNotes"
    /\ prev.wrote
    /\ prev.outcome = "crashed"
    /\ prev.notes = <<1, 2>>
    /\ \A n \in Range(prev.notes) : Cardinality(TimeHeadingsOf(doc, n)) = 2

---------------------------------------------------------------------------
(* C10: the date headings written by one run are read back by the next     *)

\* the previous invocation appended notes and returned Success
PrevSucceeded == prev.wrote /\ prev.outcome = "success"

\* C10: on a document seeded with a year, a month and a day heading (the
\* five configured heading levels are distinct), the date getLastDate
\* parses at the start of a run is the carried lastYear, lastMonth and
\* lastDay at the end of the previous successful run, which is the local
\* date of the last note that run appended; so a first note of that same
\* date gets no year, month or day heading.
C10_HeadingRoundTrip ==
    PrevSucceeded =>
        /\ (pc = "loop" /\ i = 1) =>
              /\ getLastDate(fetchedDoc) =
                    [raises    |-> "",
                     lastYear  |-> prev.lastYear,
                     lastMonth |-> prev.lastMonth,
                     lastDay   |-> prev.lastDay]
              /\ <<prev.lastYear, prev.lastMonth, prev.lastDay>>
                    = LocalDate(prev.notes[Len(prev.notes)])
        /\ (/\ pc = "loop" /\ i = 2
            /\ LocalDate(notes[1]) = LocalDate(prev.notes[Len(prev.notes)])) =>
              /\ Len(requests) = 6
              /\ \A k \in 1..Len(requests) :
                    requests[k].kind = "updateParagraphStyle"
                       => requests[k].namedStyleType \notin DateHeadings

\* a run follows a successful run that ended on 2020-01-06, finds that date
\* in the document and has given its first note, of that date, no heading
C10_Witness ==
    /\ PrevSucceeded
    /\ prev.notes = <<1, 2>>
    /\ pc = "loop"
    /\ i = 2
    /\ notes[1] = 3
    /\ <<lastYear, lastMonth, lastDay>> = <<2020, 1, 6>>
    /\ Len(requests) = 6

---------------------------------------------------------------------------
(* C1: one heading group per date                                          *)

\* the last paragraph before paragraph q whose style is style; 0 if none
LastBefore(d, q, style) ==
    Bind({x \in 1..(q - 1) : d.styles[x] = style}, LAMBDA hits :
         IF hits = {} THEN 0 ELSE CHOOSE x \in hits : \A y \in hits : y <= x)

\* what a year, a month and a day heading name; None if it names nothing
YearNamed(text) == IF IsIntLiteral(strip(text)) THEN int(strip(text)) ELSE None

MonthNamed(text) ==
    IF \E k \in 2..Len(months) : months[k] = strip(text)
    THEN (CHOOSE k \in 2..Len(months) : months[k] = strip(text)) - 1
    ELSE None

DayNamed(text) == IF Digits(text) # <<>> THEN int(Digits(text)) ELSE None

\* The heading groups of the document, in document order: for every day
\* heading the <<year, month, day>> named by it, by the month heading it
\* is under and by the year heading that month heading is under (None for
\* a level that is missing there)
HeadingGroups(d) ==
    Bind(Content(d), LAMBDA c :
    Bind({q \in 1..Len(d.styles) :
             d.styles[q] = "HEADING_" \o config.DAY_HEADER_NUM}, LAMBDA days :
        [k \in 1..Cardinality(days) |->
            Bind(CHOOSE q \in days : Cardinality({x \in days : x <= q}) = k,
                 LAMBDA q :
            Bind(LastBefore(d, q, "HEADING_" \o config.MONTH_HEADER_NUM),
                 LAMBDA mq :
            Bind(LastBefore(d, q, "HEADING_" \o config.YEAR_HEADER_NUM),
                 LAMBDA yq :
                <<IF yq = 0 THEN None ELSE YearNamed(c[yq].content),
                  IF mq = 0 \/ mq < yq THEN None ELSE MonthNamed(c[mq].content),
                  DayNamed(c[q].content)>>)))]))

\* date a is before date b
Before(a, b) ==
    \/ a[1] < b[1]
    \/ a[1] = b[1] /\ a[2] < b[2]
    \/ a[1] = b[1] /\ a[2] = b[2] /\ a[3] < b[3]

\* C1: after notesToGoogleDoc has written notes of pairwise distinct local
\* dates, in creation order, to a document whose last date headings were
\* parsed, the document holds exactly one year/month/day heading group for
\* every date, in ascending order: every date of a note has its own day
\* heading, under the month heading and the year heading that name it.
C1_OneGroupPerDate ==
    (/\ pc = "deleteNotes"
     /\ \A a, b \in 1..Len(notes) :
           a # b => LocalDate(notes[a]) # LocalDate(notes[b]))
    => Bind(HeadingGroups(doc), LAMBDA g :
          /\ \A a \in 1..Len(notes) :
                \E k \in 1..Len(g) : g[k] = LocalDate(notes[a])
          /\ \A j, k \in 1..Len(g) : j < k => Before(g[j], g[k]))

---------------------------------------------------------------------------
(* C8: the index arithmetic of addText                                     *)

\* the document after the first k requests of the batch were applied to
\* the document the run fetched
DocAfter(k) == batchUpdate(fetchedDoc, SubSeq(requests, 1, k)).doc

\* C8: in the batch a run has built and the service has applied, the k-th
\* addText call inserts at e_k - 1 and styles [e_k, e_k + len(text_k) + 1),
\* where e_1 is the end index of the fetched document and e_(k+1) =
\* e_k + len(text_k) + 1; so the style ranges follow one another without
\* overlap, and as the requests are applied in order every style range
\* covers exactly the paragraph its insertion has created (also for an
\* empty text) and nothing the document held before the batch.
C8_StyleRangesCoverInsertions ==
    (pc = "deleteNotes") =>
        \A k \in 1..(Len(requests) \div 2) :
            LET ins  == requests[2 * k - 1]
                sty  == requests[2 * k]
                text == Tail(ins.text)
                e    == IF k = 1 THEN getEndIndex(fetchedDoc)
                        ELSE requests[2 * k - 2].endIndex
            IN  /\ ins.kind = "insertText"
                /\ sty.kind = "updateParagraphStyle"
                /\ Head(ins.text) = NL
                /\ ins.index = e - 1
                /\ sty.startIndex = e
                /\ sty.endIndex = e + len(text) + 1
                /\ sty.startIndex >= getEndIndex(fetchedDoc)
                /\ Bind(DocAfter(2 * k - 1), LAMBDA d :
                   Bind(PosOfIndex(d.chars, sty.startIndex), LAMBDA p :
                      /\ p > 1
                      /\ d.chars[p - 1] = NL
                      /\ SubSeq(d.chars, p, Len(d.chars)) = text \o <<NL>>
                      /\ sty.endIndex = getEndIndex(d)))

===========================================================================
